---- MODULE Spec2Model ----
(***************************************************************************)
(* Mean-field relaxation of a magnetisation field (src/src/Energy_Term.py,  *)
(* src/src/Mean_Field.py).                                                  *)
(*                                                                          *)
(* Numbers.  A numpy float is modelled as a binary floating-point number    *)
(* m * 2^e whose mantissa m has 15 bits (the widest whose products fit the  *)
(* 32-bit integers of TLC), or NaN, or a signed infinity, with the IEEE     *)
(* rules numpy follows: every operation rounds its exact result to the      *)
(* nearest number, 0/0 = NaN, x/0 = +-inf, inf*0 = NaN, inf-inf = NaN,      *)
(* NaN propagates and every comparison with NaN is false.  The exponent is  *)
(* unbounded (no value of the program comes near the range of a double)    *)
(* and the sign of a zero is not kept (every divisor that can be zero is a  *)
(* norm, a +0).  Constants carry their source values in SI units.           *)
(*                                                                          *)
(* Arrays are records [shape, data]: data maps every index tuple of the     *)
(* shape (0-based, as numpy) to a number.                                    *)
(***************************************************************************)
EXTENDS Integers, Sequences, FiniteSets, TLC

VARIABLES
  Nx, Ny, Nz,   \* Energy_Term.Nx, Ny, Nz: the grid shape the module is configured with
  M,            \* M[o]: self.M of the M object o (m_my_1, m_my_2)
  pc,           \* position of the driver: "idle", "loop" (head of the while) or "exit"
  cur,          \* the object the running Mean_field_difference was called with
  count,        \* local count of Mean_field_difference
  H_eff,        \* local H_eff of Mean_field_difference
  E,            \* local E of Mean_field_difference
  ret,          \* ret[o]: the tuple returned by Mean_field_difference(o), {} before
  M0,           \* history: M0[o] is the array object o was constructed with
  nset,         \* history: set_M calls made by the running or last call
  nconv,        \* history: convergence checks that succeeded in that call
  out           \* out[o]: the last result a query on object o returned

vars == <<Nx, Ny, Nz, M, pc, cur, count, H_eff, E, ret, M0, nset, nconv, out>>

\* ------------------------------------------------------------------------
\* evaluation

\* the element of a singleton set: The({e(x) : x \in {a}}) is e(a), with a
\* evaluated once and bound to x as a local variable of the code is
The(S) == CHOOSE r \in S : TRUE

\* ------------------------------------------------------------------------
\* numpy floats

\* mantissas m satisfy MantLo <= |m| < MantHi, or m = 0 (and then e = 0)
MantBits == 3 * 5
MantHi == 2 ^ MantBits
MantLo == 2 ^ (MantBits - 1)

NaN == [k |-> "nan", m |-> 0, e |-> 0]
Inf(s) == [k |-> "inf", m |-> s, e |-> 0]
Zero == [k |-> "fin", m |-> 0, e |-> 0]

IsFin(a) == a.k = "fin"
IsNaN(a) == a.k = "nan"
IsInf(a) == a.k = "inf"

Sgn(x) == IF x > 0 THEN 1 ELSE IF x < 0 THEN -1 ELSE 0
AbsInt(x) == IF x < 0 THEN -x ELSE x

\* a / b for integers a >= 0, b > 0, rounded to nearest (halves up)
RDiv(a, b) == (2 * a + b) \div (2 * b)

RECURSIVE BitLen(_)
\* the number of bits of n >= 0
BitLen(n) ==
  IF n < 2 THEN n
  ELSE IF n >= 65536 THEN 16 + BitLen(n \div 65536)
  ELSE IF n >= 256 THEN 8 + BitLen(n \div 256)
  ELSE IF n >= 16 THEN 4 + BitLen(n \div 16)
  ELSE IF n >= 4 THEN 2 + BitLen(n \div 4)
  ELSE 1 + BitLen(n \div 2)

\* the float s * q * 2^e for a rounded mantissa MantLo <= q <= MantHi
Carry(s, q, e) ==
  The({ IF v = MantHi
        THEN [k |-> "fin", m |-> s * MantLo, e |-> e + 1]
        ELSE [k |-> "fin", m |-> s * v, e |-> e]
        : v \in {q} })

\* the float nearest to n * 2^e for an integer n # 0 of b bits
Normalise(n, e, b) ==
  The({ IF w <= MantBits
        THEN [k |-> "fin", m |-> n * 2 ^ (MantBits - w), e |-> e - (MantBits - w)]
        ELSE Carry(Sgn(n),
                   (AbsInt(n) + 2 ^ (w - MantBits - 1)) \div 2 ^ (w - MantBits),
                   e + w - MantBits)
        : w \in {b} })

\* the float nearest to n * 2^e
Round(n, e) ==
  The({ IF v = 0 THEN Zero ELSE Normalise(v, e, BitLen(AbsInt(v))) : v \in {n} })

\* the float of an integer
Flt(n) == Round(n, 0)

FSign(a) == Sgn(a.m)

FNeg(a) == The({[k |-> x.k, m |-> -x.m, e |-> x.e] : x \in {a}})

FAbs(a) == The({[k |-> x.k, m |-> AbsInt(x.m), e |-> x.e] : x \in {a}})

\* the sum of two finite numbers, hi the one with the larger exponent: lo is
\* below half a unit in the last place of hi when the exponents differ by more
\* than the mantissa width
AddFin(hi, lo) ==
  IF lo.m = 0 THEN hi
  ELSE IF hi.m = 0 THEN lo
  ELSE IF hi.e - lo.e > MantBits THEN hi
  ELSE Round(hi.m * 2 ^ (hi.e - lo.e) + lo.m, lo.e)

FAdd(a, b) ==
  The({ IF IsNaN(x) \/ IsNaN(y) THEN NaN
        ELSE IF IsInf(x) /\ IsInf(y) THEN (IF x.m = y.m THEN x ELSE NaN)
        ELSE IF IsInf(x) THEN x
        ELSE IF IsInf(y) THEN y
        ELSE IF x.m = 0 THEN y
        ELSE IF y.m = 0 THEN x
        ELSE IF x.e >= y.e THEN AddFin(x, y) ELSE AddFin(y, x)
        : x \in {a}, y \in {b} })

FSub(a, b) == FAdd(a, FNeg(b))

FMul(a, b) ==
  The({ IF IsNaN(x) \/ IsNaN(y) THEN NaN
        ELSE IF IsInf(x) \/ IsInf(y)
             THEN (IF FSign(x) * FSign(y) = 0 THEN NaN ELSE Inf(FSign(x) * FSign(y)))
        ELSE Round(x.m * y.m, x.e + y.e)
        : x \in {a}, y \in {b} })

FDiv(a, b) ==
  The({ IF IsNaN(x) \/ IsNaN(y) THEN NaN
        ELSE IF IsInf(x) /\ IsInf(y) THEN NaN
        ELSE IF IsInf(x) THEN (IF FSign(y) < 0 THEN FNeg(x) ELSE x)
        ELSE IF IsInf(y) THEN Zero
        ELSE IF y.m = 0 THEN (IF x.m = 0 THEN NaN ELSE Inf(Sgn(x.m)))
        ELSE Round(Sgn(x.m) * Sgn(y.m) * RDiv(AbsInt(x.m) * MantHi, AbsInt(y.m)),
                   x.e - y.e - MantBits)
        : x \in {a}, y \in {b} })

RECURSIVE SqrtIter(_, _)
\* Newton's iteration for the integer square root of n, from x >= sqrt(n)
SqrtIter(n, x) ==
  The({ IF y >= v THEN v ELSE SqrtIter(n, y) : v \in {x}, y \in {(x + n \div x) \div 2} })
\* sqrt(n) for an integer n > 0, rounded to nearest
ISqrt(n) ==
  The({ IF v - r * r > r THEN r + 1 ELSE r
        : v \in {n}, r \in {SqrtIter(n, IF n < 46340 THEN n ELSE 46340)} })

FSqrt(a) ==
  The({ IF IsNaN(x) \/ FSign(x) < 0 THEN NaN
        ELSE IF IsInf(x) \/ x.m = 0 THEN x
        ELSE IF x.e % 2 = 0
             THEN Round(ISqrt(x.m * MantLo), (x.e - (MantBits - 1)) \div 2)
             ELSE Round(ISqrt(x.m * MantHi), (x.e - MantBits) \div 2)
        : x \in {a} })

\* sqrt(x*x + y*y + z*z), as np.linalg.norm reduces the component axis
FNorm3(x, y, z) == FSqrt(FAdd(FAdd(FMul(x, x), FMul(y, y)), FMul(z, z)))

\* a <= b, false when either is NaN
FLe(a, b) ==
  \E x \in {a}, y \in {b} : ~IsNaN(x) /\ ~IsNaN(y) /\ (x = y \/ FSign(FSub(x, y)) < 0)

\* max(a, b) as np.max reduces: NaN wins
FMax(a, b) ==
  The({ IF IsNaN(x) \/ IsNaN(y) THEN NaN ELSE IF FLe(y, x) THEN x ELSE y
        : x \in {a}, y \in {b} })

\* np.isclose(a, 0, atol=atol): |a - 0| <= atol + rtol * |0|, false for NaN and inf
IsClose0(a, atol) == \E x \in {a} : IsFin(x) /\ FLe(FAbs(x), atol)

RECURSIVE Dec(_, _)
\* the float of the decimal literal n e p
Dec(n, p) ==
  IF p < -9 THEN FDiv(Dec(n, p + 9), Flt(10 ^ 9))
  ELSE IF p < 0 THEN FDiv(Flt(n), Flt(10 ^ (-p)))
  ELSE FMul(Flt(n), Flt(10 ^ p))

\* ------------------------------------------------------------------------
\* module constants (Energy_Term.py lines 5-6, Mean_Field.py lines 5-11)

np_pi == Dec(314159265, -8)
mu0 == FMul(FMul(Flt(4), np_pi), Dec(1, -7))
dx == Dec(25, -10)
dy == Dec(25, -10)
dz == Dec(25, -10)

D == Dec(158, -5)
A == Dec(878, -14)
B == Dec(2, -1)
H == <<Flt(0), Flt(0), FDiv(B, mu0)>>
maxiter == 3
\* the default of the parameter lamda of update_M
lamda == Dec(5, -3)
\* the default of the parameter tol of Mean_field_difference
tol == Dec(1, -4)
\* the default atol of np.allclose
np_atol == Dec(1, -8)

\* ------------------------------------------------------------------------
\* numpy arrays

Idx3(s) == (0 .. s[1] - 1) \X (0 .. s[2] - 1) \X (0 .. s[3] - 1)
Idx4(s) == (0 .. s[1] - 1) \X (0 .. s[2] - 1) \X (0 .. s[3] - 1) \X (0 .. s[4] - 1)
Idx(s) == IF Len(s) = 3 THEN Idx3(s) ELSE Idx4(s)

\* the array of shape s with the elements d, a function on Idx(s) (d @@ <<>> is d,
\* tabulated once instead of at every access)
Arr(s, d) == [shape |-> s, data |-> d @@ <<>>]

\* np.zeros(shape), np.zeros_like(a)
zeros(s) == The({Arr(t, [ix \in Idx(t) |-> Zero]) : t \in {s}})
zeros_like(a) == zeros(a.shape)

\* broadcasting of two shapes of one rank that agree up to axes of length 1
BShape(s, t) ==
  IF Len(s) = 3
  THEN << IF s[1] = 1 THEN t[1] ELSE s[1], IF s[2] = 1 THEN t[2] ELSE s[2],
          IF s[3] = 1 THEN t[3] ELSE s[3] >>
  ELSE << IF s[1] = 1 THEN t[1] ELSE s[1], IF s[2] = 1 THEN t[2] ELSE s[2],
          IF s[3] = 1 THEN t[3] ELSE s[3], IF s[4] = 1 THEN t[4] ELSE s[4] >>
BIx(s, ix) ==
  IF Len(s) = 3
  THEN << IF s[1] = 1 THEN 0 ELSE ix[1], IF s[2] = 1 THEN 0 ELSE ix[2],
          IF s[3] = 1 THEN 0 ELSE ix[3] >>
  ELSE << IF s[1] = 1 THEN 0 ELSE ix[1], IF s[2] = 1 THEN 0 ELSE ix[2],
          IF s[3] = 1 THEN 0 ELSE ix[3], IF s[4] = 1 THEN 0 ELSE ix[4] >>

\* a + b, a - b, a * b (np.multiply) and a / b of two arrays, elementwise, broadcast
np_add(a, b) ==
  The({ Arr(BShape(x.shape, y.shape),
            [ix \in Idx(BShape(x.shape, y.shape)) |->
               FAdd(x.data[BIx(x.shape, ix)], y.data[BIx(y.shape, ix)])])
        : x \in {a}, y \in {b} })
np_subtract(a, b) ==
  The({ Arr(BShape(x.shape, y.shape),
            [ix \in Idx(BShape(x.shape, y.shape)) |->
               FSub(x.data[BIx(x.shape, ix)], y.data[BIx(y.shape, ix)])])
        : x \in {a}, y \in {b} })
np_multiply(a, b) ==
  The({ Arr(BShape(x.shape, y.shape),
            [ix \in Idx(BShape(x.shape, y.shape)) |->
               FMul(x.data[BIx(x.shape, ix)], y.data[BIx(y.shape, ix)])])
        : x \in {a}, y \in {b} })
np_divide(a, b) ==
  The({ Arr(BShape(x.shape, y.shape),
            [ix \in Idx(BShape(x.shape, y.shape)) |->
               FDiv(x.data[BIx(x.shape, ix)], y.data[BIx(y.shape, ix)])])
        : x \in {a}, y \in {b} })

\* c * a, c / a and a / c for a scalar c and an array a
scalar_multiply(c, a) ==
  The({ Arr(x.shape, [ix \in Idx(x.shape) |-> FMul(k, x.data[ix])]) : k \in {c}, x \in {a} })
scalar_divide(c, a) ==
  The({ Arr(x.shape, [ix \in Idx(x.shape) |-> FDiv(k, x.data[ix])]) : k \in {c}, x \in {a} })
divide_scalar(a, c) ==
  The({ Arr(x.shape, [ix \in Idx(x.shape) |-> FDiv(x.data[ix], k)]) : k \in {c}, x \in {a} })
\* -a and abs(a)
np_negative(a) ==
  The({ Arr(x.shape, [ix \in Idx(x.shape) |-> FNeg(x.data[ix])]) : x \in {a} })
np_abs(a) ==
  The({ Arr(x.shape, [ix \in Idx(x.shape) |-> FAbs(x.data[ix])]) : x \in {a} })

\* np.expand_dims(np.linalg.norm(a, axis=3), axis=3)
norm_axis3(a) ==
  The({ Arr(<<x.shape[1], x.shape[2], x.shape[3], 1>>,
            [ix \in Idx4(<<x.shape[1], x.shape[2], x.shape[3], 1>>) |->
               FNorm3(x.data[<<ix[1], ix[2], ix[3], 0>>],
                      x.data[<<ix[1], ix[2], ix[3], 1>>],
                      x.data[<<ix[1], ix[2], ix[3], 2>>])])
        : x \in {a} })

\* np.sum(a, axis=3, keepdims=True)
sum_axis3(a) ==
  The({ Arr(<<x.shape[1], x.shape[2], x.shape[3], 1>>,
            [ix \in Idx4(<<x.shape[1], x.shape[2], x.shape[3], 1>>) |->
               FAdd(FAdd(x.data[<<ix[1], ix[2], ix[3], 0>>],
                         x.data[<<ix[1], ix[2], ix[3], 1>>]),
                    x.data[<<ix[1], ix[2], ix[3], 2>>])])
        : x \in {a} })

Size(s) == IF Len(s) = 3 THEN s[1] * s[2] * s[3] ELSE s[1] * s[2] * s[3] * s[4]
\* the index tuple of the n-th element in C order (np.unravel_index)
Unravel(s, n) ==
  IF Len(s) = 3
  THEN << n \div (s[2] * s[3]), (n \div s[3]) % s[2], n % s[3] >>
  ELSE << n \div (s[2] * s[3] * s[4]), (n \div (s[3] * s[4])) % s[2],
          (n \div s[4]) % s[3], n % s[4] >>

RECURSIVE SumTo(_, _)
\* the sum of the first n elements of a in C order
SumTo(a, n) ==
  IF n = 0 THEN Zero ELSE FAdd(SumTo(a, n - 1), a.data[Unravel(a.shape, n - 1)])
\* np.sum(a)
np_sum(a) == The({SumTo(x, Size(x.shape)) : x \in {a}})

RECURSIVE MaxTo(_, _)
\* the maximum of the first n >= 1 elements of a in C order
MaxTo(a, n) ==
  IF n = 1 THEN a.data[Unravel(a.shape, 0)]
  ELSE FMax(MaxTo(a, n - 1), a.data[Unravel(a.shape, n - 1)])
\* np.max(a), for a non-empty array
np_max(a) == The({MaxTo(x, Size(x.shape)) : x \in {a}})

\* np.allclose(a, 0, atol=atol)
allclose0(a, atol) == \E x \in {a} : \A ix \in DOMAIN x.data : IsClose0(x.data[ix], atol)

Inside(s, i, j, k) == i \in 0 .. s[1] - 1 /\ j \in 0 .. s[2] - 1 /\ k \in 0 .. s[3] - 1
Clamp(n, x) == IF x < 0 THEN 0 ELSE IF x > n - 1 THEN n - 1 ELSE x
\* the shape of an array padded by one cell at both ends of its three grid axes
Padded(s) == <<s[1] + 2, s[2] + 2, s[3] + 2, s[4]>>

\* the padding of curl with ghost cells that copy the boundary cell
pad_constant_edge_ghost(a) ==
  The({ Arr(Padded(x.shape),
            [ix \in Idx4(Padded(x.shape)) |->
               x.data[<<Clamp(x.shape[1], ix[1] - 1), Clamp(x.shape[2], ix[2] - 1),
                        Clamp(x.shape[3], ix[3] - 1), ix[4]>>]])
        : x \in {a} })

\* np.pad(a, ((1, 1), (1, 1), (1, 1), (0, 0)), 'constant', constant_values=0)
pad_constant(a) ==
  The({ Arr(Padded(x.shape),
            [ix \in Idx4(Padded(x.shape)) |->
               IF Inside(x.shape, ix[1] - 1, ix[2] - 1, ix[3] - 1)
               THEN x.data[<<ix[1] - 1, ix[2] - 1, ix[3] - 1, ix[4]>>]
               ELSE Zero])
        : x \in {a} })

\* the padding of laplace with ghost cells that are zero
pad_edge_zero_ghost(a) ==
  The({ Arr(Padded(x.shape),
            [ix \in Idx4(Padded(x.shape)) |->
               IF Inside(x.shape, ix[1] - 1, ix[2] - 1, ix[3] - 1)
               THEN x.data[<<ix[1] - 1, ix[2] - 1, ix[3] - 1, ix[4]>>]
               ELSE Zero])
        : x \in {a} })

\* np.pad(a, ((1, 1), (1, 1), (1, 1), (0, 0)), 'edge')
pad_edge(a) ==
  The({ Arr(Padded(x.shape),
            [ix \in Idx4(Padded(x.shape)) |->
               x.data[<<Clamp(x.shape[1], ix[1] - 1), Clamp(x.shape[2], ix[2] - 1),
                        Clamp(x.shape[3], ix[3] - 1), ix[4]>>]])
        : x \in {a} })

\* p[ox : ox + n1, oy : oy + n2, oz : oz + n3, c] of a padded array p: the slices
\* 0:-2 / :-2, 1:-1 and 2: of an axis of length n + 2 start at 0, 1 and 2
Slice3(p, ox, oy, oz, c) ==
  The({ Arr(<<x.shape[1] - 2, x.shape[2] - 2, x.shape[3] - 2>>,
            [ix \in Idx3(<<x.shape[1] - 2, x.shape[2] - 2, x.shape[3] - 2>>) |->
               x.data[<<ix[1] + ox, ix[2] + oy, ix[3] + oz, c>>]])
        : x \in {p} })
\* p[ox : ox + n1, oy : oy + n2, oz : oz + n3] with the component axis kept
Slice4(p, ox, oy, oz) ==
  The({ Arr(<<x.shape[1] - 2, x.shape[2] - 2, x.shape[3] - 2, x.shape[4]>>,
            [ix \in Idx4(<<x.shape[1] - 2, x.shape[2] - 2, x.shape[3] - 2, x.shape[4]>>) |->
               x.data[<<ix[1] + ox, ix[2] + oy, ix[3] + oz, ix[4]>>]])
        : x \in {p} })

\* np.tile(h, n): the 1-d array h repeated n times
tile(h, n) == The({[i \in 1 .. Len(x) * n |-> x[((i - 1) % Len(x)) + 1]] : x \in {h}})
\* flat.reshape(s): element ix is the flat element at its C-order offset
reshape(flat, s) ==
  The({ Arr(s, [ix \in Idx4(s) |->
                  x[((ix[1] * s[2] + ix[2]) * s[3] + ix[3]) * s[4] + ix[4] + 1]])
        : x \in {flat} })

\* ------------------------------------------------------------------------
\* class M (Energy_Term.py); self is the stored array self.M

get_M(self) == self

get_Ms(self) == norm_axis3(self)

get_m(self) ==
  The({ IF allclose0(get_M(s), np_atol)
        THEN zeros_like(get_M(s))
        ELSE np_divide(s, get_Ms(s))
        : s \in {self} })

\* (a - b) / (2 * d) of two slices of the padded unit field
CentralDiff(a, b, d) == divide_scalar(np_subtract(a, b), FMul(Flt(2), d))

\* the array curl with its components 0, 1, 2 increased by cx, cy, cz
AddComponents(curl0, cx, cy, cz) ==
  The({ Arr(c.shape,
            [ix \in Idx4(c.shape) |->
               FAdd(c.data[ix],
                    (IF ix[4] = 0 THEN x ELSE IF ix[4] = 1 THEN y ELSE z)
                      .data[<<ix[1], ix[2], ix[3]>>])])
        : c \in {curl0}, x \in {cx}, y \in {cy}, z \in {cz} })

\* d[...] += diff for the array d = np.zeros((Nx, Ny, Nz))
Accumulate(diff) == np_add(zeros(<<Nx, Ny, Nz>>), diff)

\* the arguments of AddComponents are dzdy - dydz, dxdz - dzdx and dydx - dxdy
curl(self) ==
  The({ The({ AddComponents(
                zeros_like(m),
                np_subtract(
                  Accumulate(CentralDiff(Slice3(m_pad, 1, 2, 1, 2), Slice3(m_pad, 1, 0, 1, 2), dy)),
                  Accumulate(CentralDiff(Slice3(m_pad, 1, 1, 2, 1), Slice3(m_pad, 1, 1, 0, 1), dz))),
                np_subtract(
                  Accumulate(CentralDiff(Slice3(m_pad, 1, 1, 2, 0), Slice3(m_pad, 1, 1, 0, 0), dz)),
                  Accumulate(CentralDiff(Slice3(m_pad, 2, 1, 1, 2), Slice3(m_pad, 0, 1, 1, 2), dx))),
                np_subtract(
                  Accumulate(CentralDiff(Slice3(m_pad, 2, 1, 1, 1), Slice3(m_pad, 0, 1, 1, 1), dx)),
                  Accumulate(CentralDiff(Slice3(m_pad, 1, 2, 1, 0), Slice3(m_pad, 1, 0, 1, 0), dy))))
              : m_pad \in {pad_constant(m)} })
        : m \in {get_m(self)} })

\* (lo + hi - 2 * mid) / (d ** 2) of three slices of the padded unit field
SecondDiff(lo, hi, mid, d) ==
  The({ divide_scalar(np_subtract(np_add(lo, hi), scalar_multiply(Flt(2), mid)), FMul(h, h))
        : h \in {d} })

\* lap += SecondDiff along x, then along y, then along z, from lap = zeros_like(m)
laplace(self) ==
  The({ The({ np_add(
                np_add(
                  np_add(zeros_like(m),
                         SecondDiff(Slice4(m_pad, 0, 1, 1), Slice4(m_pad, 2, 1, 1),
                                    Slice4(m_pad, 1, 1, 1), dx)),
                  SecondDiff(Slice4(m_pad, 1, 0, 1), Slice4(m_pad, 1, 2, 1),
                             Slice4(m_pad, 1, 1, 1), dy)),
                SecondDiff(Slice4(m_pad, 1, 1, 0), Slice4(m_pad, 1, 1, 2),
                           Slice4(m_pad, 1, 1, 1), dz))
              : m_pad \in {pad_edge(m)} })
        : m \in {get_m(self)} })

\* ------------------------------------------------------------------------
\* energy terms (Energy_Term.py); m is the stored array of the M object

\* Exchange.effective_field without its guard for the zero field
Exchange_effective_field_unguarded(m) ==
  The({ np_multiply(scalar_divide(FMul(Flt(2), A), scalar_multiply(mu0, get_Ms(x))),
                    laplace(x))
        : x \in {m} })

Exchange_effective_field(m) ==
  The({ IF allclose0(get_M(x), np_atol)
        THEN zeros_like(get_M(x))
        ELSE np_multiply(scalar_divide(FMul(Flt(2), A), scalar_multiply(mu0, get_Ms(x))),
                         laplace(x))
        : x \in {m} })

\* DMI.effective_field with a zero field answered in the shape of get_Ms()
DMI_effective_field_ms_shape(m) ==
  The({ IF allclose0(get_M(x), np_atol)
        THEN zeros_like(get_Ms(x))
        ELSE np_multiply(np_negative(scalar_divide(FMul(Flt(2), D),
                                                   scalar_multiply(mu0, get_Ms(x)))),
                         curl(x))
        : x \in {m} })

DMI_effective_field(m) ==
  The({ IF allclose0(get_M(x), np_atol)
        THEN zeros_like(get_M(x))
        ELSE np_multiply(np_negative(scalar_divide(FMul(Flt(2), D),
                                                   scalar_multiply(mu0, get_Ms(x)))),
                         curl(x))
        : x \in {m} })

\* Zeeman.effective_field as the part of H along the unit field
Zeeman_effective_field_along_m(m) ==
  np_multiply(reshape(tile(H, Nx * Ny * Nz), <<Nx, Ny, Nz, 3>>), get_m(m))

Zeeman_effective_field(m) == reshape(tile(H, Nx * Ny * Nz), <<Nx, Ny, Nz, 3>>)

Terms == {"Exchange", "DMI", "Zeeman"}

effective_field(term, m) ==
  The({ CASE term = "Exchange" -> Exchange_effective_field(x)
          [] term = "DMI" -> DMI_effective_field(x)
          [] term = "Zeeman" -> Zeeman_effective_field(x)
        : x \in {m} })

\* value1 is get_m() * effective_field(m), value2 is get_Ms() * value1
EnergyTerm_energy_density(term, m) ==
  The({ scalar_multiply(
          FDiv(FNeg(mu0), Flt(2)),
          sum_axis3(np_multiply(get_Ms(x), np_multiply(get_m(x), effective_field(term, x)))))
        : x \in {m} })

\* value is get_m() * effective_field(m)
Zeeman_energy_density(m) ==
  The({ np_multiply(scalar_multiply(FNeg(mu0), get_Ms(x)),
                    sum_axis3(np_multiply(get_m(x), Zeeman_effective_field(x))))
        : x \in {m} })

energy_density(term, m) ==
  The({ IF term = "Zeeman" THEN Zeeman_energy_density(x)
        ELSE EnergyTerm_energy_density(term, x)
        : x \in {m} })

\* np.sum(self.energy_density(m) * dV) with dV = dx * dy * dz
energy(term, m) == np_sum(scalar_multiply(FMul(FMul(dx, dy), dz), energy_density(term, m)))

\* ------------------------------------------------------------------------
\* class Min_Driver (Mean_Field.py)

\* H_eff = Heff_ex_my + Heff_z_my + Heff_dmi_my and E = E_ex + E_z + E_dmi
cal_effective_field(m) ==
  The({ [H_eff |-> np_add(np_add(Exchange_effective_field(x), Zeeman_effective_field(x)),
                          DMI_effective_field(x)),
         E |-> FAdd(FAdd(energy("Exchange", x), energy("Zeeman", x)), energy("DMI", x))]
        : x \in {m} })

\* the test beta == 9e99 is true of the module constant beta, so L_result is the
\* integer 1; the branch that evaluates Langevin(beta * mu0 * H_norm) is never taken
L_result == Flt(1)

\* update_M without the renormalisation: the damped vector M_lamda is returned
update_M_not_renormalised(m, Heff, lam) ==
  The({ The({ IF allclose0(H_norm, np_atol)
              THEN M_old
              ELSE The({ np_add(M_old, scalar_multiply(lam, np_subtract(M_new, M_old)))
                         : M_new \in {np_multiply(Ms_old, scalar_multiply(L_result, np_divide(h, H_norm)))} })
              : Ms_old \in {get_Ms(M_old)}, H_norm \in {norm_axis3(h)} })
        : M_old \in {get_M(m)}, h \in {Heff} })

update_M(m, Heff, lam) ==
  The({ The({ IF allclose0(H_norm, np_atol)
              THEN M_old
              ELSE The({ The({ np_multiply(np_divide(M_lamda, norm_axis3(M_lamda)),
                                           norm_axis3(M_new))
                               : M_lamda \in {np_add(M_old, scalar_multiply(lam, np_subtract(M_new, M_old)))} })
                         : M_new \in {np_multiply(Ms_old, scalar_multiply(L_result, np_divide(h, H_norm)))} })
              : Ms_old \in {get_Ms(M_old)}, H_norm \in {norm_axis3(h)} })
        : M_old \in {get_M(m)}, h \in {Heff} })

\* the stop criterion with the default atol of np.allclose in place of tol
Converged_default_atol(m_new, m_old, t) ==
  IsClose0(np_max(np_abs(np_subtract(m_new, m_old))), np_atol)

\* the stop criterion of one iteration, with diff = m_new - m_old and
\* max_value = np.max(abs(diff)): np.allclose(max_value, 0, atol=tol)
Converged(m_new, m_old, t) ==
  IsClose0(np_max(np_abs(np_subtract(m_new, m_old))), t)

\* ------------------------------------------------------------------------
\* the arrays the objects are constructed with

\* the saturation magnetisation of the fields of the tests and of simulation.py
Ms == Dec(384, 3)
Objs == {1, 2}

\* the vector (x, y, z) * 1e-5 * Ms
Vec(x, y, z) ==
  <<FMul(Dec(x, -5), Ms), FMul(Dec(y, -5), Ms), FMul(Dec(z, -5), Ms)>>
\* the field with vector w at cell c and v at every other cell
Spot(g, v, w, c) ==
  Arr(<<g[1], g[2], g[3], 3>>,
      [ix \in Idx4(<<g[1], g[2], g[3], 3>>) |->
         IF <<ix[1], ix[2], ix[3]>> = c THEN w[ix[4] + 1] ELSE v[ix[4] + 1]])
Uniform(g, v) == Spot(g, v, v, <<0, 0, 0>>)
\* the field with vector w on the plane x = i and v elsewhere
Plane(g, v, w, i) ==
  Arr(<<g[1], g[2], g[3], 3>>,
      [ix \in Idx4(<<g[1], g[2], g[3], 3>>) |->
         IF ix[1] = i THEN w[ix[4] + 1] ELSE v[ix[4] + 1]])

Up == Vec(0, 0, 100000)
Down == Vec(0, 0, -100000)
Tilted == Vec(60000, 0, 80000)
Null == Vec(0, 0, 0)
\* a vector n steps of the relaxation away from the direction of H: a step moves
\* the unit vector by lamda times its x component, which is tol at 2000
Near(n) == Vec(1995 + 10 * n, 0, 99980)

Centre(g) == <<g[1] \div 2, g[2] \div 2, g[3] \div 2>>

RelaxGrids == {<<1, 1, 1>>, <<1, 1, 2>>, <<2, 1, 1>>}
RelaxFields(g) ==
  {Uniform(g, v) : v \in {Null, Up, Down, Tilted}}
    \cup {Uniform(g, Near(n)) : n \in 0 .. maxiter + 1}
    \cup {Spot(g, Up, Null, <<0, 0, 0>>), Spot(g, Up, Tilted, <<0, 0, 0>>)}
RelaxOthers(g) == {Uniform(g, Down), Uniform(g, Near(1))}

OpsGrids == {<<1, 1, 2>>, <<2, 3, 2>>, <<3, 3, 3>>}
OpsFields(g) ==
  {Uniform(g, v) : v \in {Null, Up, Down, Tilted, Vec(-40000, 50000, 75500)}}
    \cup {Spot(g, v, w, c) : v \in {Null, Up}, w \in {Null, Tilted}, c \in {<<0, 0, 0>>, Centre(g)}}
    \cup {Plane(g, Null, Tilted, g[1] \div 2), Plane(g, Down, Vec(0, 100000, 0), 0)}
OpsOthers(g) == {Uniform(g, Tilted)}

NoOut == [op |-> "none", val |-> zeros(<<0, 0, 0, 0>>), E |-> Zero]

\* the state after the construction of the two M objects: no call made yet
Constructed ==
  /\ M0 = M
  /\ pc = "idle"
  /\ cur = 0
  /\ count = 0
  /\ H_eff = zeros(<<0, 0, 0, 0>>)
  /\ E = Zero
  /\ ret = <<{}, {}>>
  /\ nset = 0
  /\ nconv = 0
  /\ out = <<NoOut, NoOut>>

\* both objects are constructed on the grid, with equal arrays (the tests) or not
Init ==
  /\ \E g \in RelaxGrids : Nx = g[1] /\ Ny = g[2] /\ Nz = g[3]
  /\ \E f1 \in RelaxFields(<<Nx, Ny, Nz>>) :
       \E f2 \in {f1} \cup RelaxOthers(<<Nx, Ny, Nz>>) : M = <<f1, f2>>
  /\ Constructed

\* ------------------------------------------------------------------------
\* Min_Driver.Mean_field_difference(m), one step per loop iteration

\* the call with count kept from the call before, not set to 0
Call_count_kept(o) ==
  /\ pc = "idle"
  /\ ret[o] = {}
  /\ o = 1 \/ ret[1] # {}
  /\ \E he \in {cal_effective_field(M[o])} : H_eff' = he.H_eff /\ E' = he.E
  /\ count' = IF count < maxiter THEN count ELSE 0
  /\ cur' = o
  /\ pc' = "loop"
  /\ nset' = 0
  /\ nconv' = 0
  /\ UNCHANGED <<Nx, Ny, Nz, M, ret, M0, out>>

\* the call and lines 165-166; the objects are relaxed in the order of the tests
Call(o) ==
  /\ pc = "idle"
  /\ ret[o] = {}
  /\ o = 1 \/ ret[1] # {}
  /\ \E he \in {cal_effective_field(M[o])} : H_eff' = he.H_eff /\ E' = he.E
  /\ count' = 0
  /\ cur' = o
  /\ pc' = "loop"
  /\ nset' = 0
  /\ nconv' = 0
  /\ UNCHANGED <<Nx, Ny, Nz, M, ret, M0, out>>

\* the loop entered once more, under count <= maxiter
Iterate_once_more ==
  /\ pc = "loop"
  /\ count <= maxiter
  /\ \E m_old \in {get_m(M[cur])}, M_new \in {update_M(M[cur], H_eff, lamda)} :
       \E m_new \in {get_m(M_new)}, he \in {cal_effective_field(M_new)} :
          /\ M' = [M EXCEPT ![cur] = M_new]
          /\ H_eff' = he.H_eff
          /\ E' = he.E
          /\ nset' = nset + 1
          /\ IF Converged(m_new, m_old, tol)
             THEN pc' = "exit" /\ count' = count /\ nconv' = nconv + 1
             ELSE pc' = "loop" /\ count' = count + 1 /\ nconv' = nconv
  /\ UNCHANGED <<Nx, Ny, Nz, cur, ret, M0, out>>

\* the loop body with count += 1 ahead of the stop criterion
Iterate_count_first ==
  /\ pc = "loop"
  /\ count < maxiter
  /\ \E m_old \in {get_m(M[cur])}, M_new \in {update_M(M[cur], H_eff, lamda)} :
       \E m_new \in {get_m(M_new)}, he \in {cal_effective_field(M_new)} :
          /\ M' = [M EXCEPT ![cur] = M_new]
          /\ H_eff' = he.H_eff
          /\ E' = he.E
          /\ nset' = nset + 1
          /\ count' = count + 1
          /\ IF Converged(m_new, m_old, tol)
             THEN pc' = "exit" /\ nconv' = nconv + 1
             ELSE pc' = "loop" /\ nconv' = nconv
  /\ UNCHANGED <<Nx, Ny, Nz, cur, ret, M0, out>>

\* the loop body with the field and the energy computed ahead of set_M
Iterate_field_before_set ==
  /\ pc = "loop"
  /\ count < maxiter
  /\ \E m_old \in {get_m(M[cur])}, M_new \in {update_M(M[cur], H_eff, lamda)} :
       \E m_new \in {get_m(M_new)}, he \in {cal_effective_field(M[cur])} :
          /\ M' = [M EXCEPT ![cur] = M_new]
          /\ H_eff' = he.H_eff
          /\ E' = he.E
          /\ nset' = nset + 1
          /\ IF Converged(m_new, m_old, tol)
             THEN pc' = "exit" /\ count' = count /\ nconv' = nconv + 1
             ELSE pc' = "loop" /\ count' = count + 1 /\ nconv' = nconv
  /\ UNCHANGED <<Nx, Ny, Nz, cur, ret, M0, out>>

\* one pass through the body of the while loop, lines 167-181: m_old, M_new,
\* m_new and he are the locals m_old, M_new, m_new and (H_eff, E) of the code
Iterate ==
  /\ pc = "loop"
  /\ count < maxiter
  /\ \E m_old \in {get_m(M[cur])}, M_new \in {update_M(M[cur], H_eff, lamda)} :
       \E m_new \in {get_m(M_new)}, he \in {cal_effective_field(M_new)} :
          /\ M' = [M EXCEPT ![cur] = M_new]
          /\ H_eff' = he.H_eff
          /\ E' = he.E
          /\ nset' = nset + 1
          /\ IF Converged(m_new, m_old, tol)
             THEN pc' = "exit" /\ count' = count /\ nconv' = nconv + 1
             ELSE pc' = "loop" /\ count' = count + 1 /\ nconv' = nconv
  /\ UNCHANGED <<Nx, Ny, Nz, cur, ret, M0, out>>

\* the loop condition count < maxiter fails
LoopEnd ==
  /\ pc = "loop"
  /\ ~(count < maxiter)
  /\ pc' = "exit"
  /\ UNCHANGED <<Nx, Ny, Nz, M, cur, count, H_eff, E, ret, M0, nset, nconv, out>>

\* lines 183-184: return m, E, count
Return ==
  /\ pc = "exit"
  /\ ret' = [ret EXCEPT ![cur] = {[M |-> M[cur], E |-> E, count |-> count]}]
  /\ pc' = "idle"
  /\ UNCHANGED <<Nx, Ny, Nz, M, cur, count, H_eff, E, M0, nset, nconv, out>>

Next ==
  \/ \E o \in Objs : Call(o)
  \/ Iterate
  \/ LoopEnd
  \/ Return

Spec == Init /\ [][Next]_vars

\* ------------------------------------------------------------------------
\* calls of the operations of M, of the energy terms and of cal_effective_field
\* on an object, each object called once, in the order of the objects

CanCall(o) == pc = "idle" /\ out[o] = NoOut /\ (o = 1 \/ out[1] # NoOut)

Answer(o, name, array, energy_) ==
  /\ out' = [out EXCEPT ![o] = [op |-> name, val |-> array, E |-> energy_]]
  /\ UNCHANGED <<Nx, Ny, Nz, M, pc, cur, count, H_eff, E, ret, M0, nset, nconv>>

Call_get_m(o) == CanCall(o) /\ Answer(o, "get_m", get_m(M[o]), Zero)

Call_laplace(o) == CanCall(o) /\ Answer(o, "laplace", laplace(M[o]), Zero)

Call_curl(o) == CanCall(o) /\ Answer(o, "curl", curl(M[o]), Zero)

Call_effective_field(o, term) ==
  CanCall(o) /\ Answer(o, term, effective_field(term, M[o]), energy(term, M[o]))

Call_cal_effective_field(o) ==
  /\ CanCall(o)
  /\ \E he \in {cal_effective_field(M[o])} : Answer(o, "cal_effective_field", he.H_eff, he.E)

OpsInit ==
  /\ \E g \in OpsGrids : Nx = g[1] /\ Ny = g[2] /\ Nz = g[3]
  /\ \E f1 \in OpsFields(<<Nx, Ny, Nz>>) :
       \E f2 \in {f1} \cup OpsOthers(<<Nx, Ny, Nz>>) : M = <<f1, f2>>
  /\ Constructed

OpsNext ==
  \/ \E o \in Objs : Call_get_m(o)
  \/ \E o \in Objs : Call_laplace(o)
  \/ \E o \in Objs : Call_curl(o)
  \/ \E o \in Objs, term \in Terms : Call_effective_field(o, term)
  \/ \E o \in Objs : Call_cal_effective_field(o)

OpsSpec == OpsInit /\ [][OpsNext]_vars

\* ------------------------------------------------------------------------
\* properties

AllZero(a) == \A ix \in DOMAIN a.data : a.data[ix] = Zero
Returned(o) == ret[o] # {}

\* C1: for an all-zero input field Mean_field_difference returns the field
\* unchanged (all zero), energy 0 and the iteration count 0.
C1_ZeroFieldRelaxUnchanged ==
  \A o \in Objs :
    (AllZero(M0[o]) /\ Returned(o)) =>
      \A r \in ret[o] : r.M = M0[o] /\ r.E = Zero /\ r.count = 0

\* C2 as stated: for an all-zero input field laplace(), curl() and the effective
\* field of Exchange, DMI and Zeeman are the all-zero array of the field's shape.
C2_ZeroFieldAllFieldsZero ==
  \A o \in Objs :
    (AllZero(M[o]) /\ out[o].op \in {"laplace", "curl", "Exchange", "DMI", "Zeeman"}) =>
      out[o].val = zeros(M[o].shape)

\* C2 amended: for an all-zero input field laplace(), curl() and the effective
\* field of Exchange and DMI are the all-zero array of the field's shape, and the
\* effective field of Zeeman has that shape and is the external field H at every
\* cell, which is not zero.
C2_ZeroFieldDerivedFieldsZero ==
  \A o \in Objs :
    AllZero(M[o]) =>
      /\ out[o].op \in {"laplace", "curl", "Exchange", "DMI"} => out[o].val = zeros(M[o].shape)
      /\ out[o].op = "Zeeman" =>
           /\ out[o].val.shape = M[o].shape
           /\ \A ix \in DOMAIN out[o].val.data : out[o].val.data[ix] = H[ix[4] + 1]
           /\ out[o].val # zeros(M[o].shape)

C2_Witness ==
  /\ AllZero(M[1]) /\ AllZero(M[2])
  /\ out[1].op = "Exchange" /\ out[2].op = "Zeeman"

\* C3: two runs of Mean_field_difference started from equal fields, the second
\* by the same Min_Driver after the first, return equal counts, arrays and energies.
C3_Deterministic ==
  (Returned(1) /\ Returned(2) /\ M0[1] = M0[2]) => ret[1] = ret[2]

C3_Witness ==
  /\ Returned(1) /\ Returned(2) /\ M0[1] = M0[2]
  /\ \E r \in ret[2] : r.count = 1 /\ r.M # M0[2]

\* the call of object o has returned and no other call was made since
LastReturned(o) == pc = "idle" /\ cur = o /\ Returned(o)

\* C4: Mean_field_difference terminates: every pass through the loop is one
\* set_M call and adds one to count or leaves the loop, it makes at most maxiter
\* set_M calls, 0 <= count <= maxiter always, and when no convergence check
\* succeeds it leaves the loop exactly at count = maxiter and returns that count.
C4_Terminates ==
  /\ [](/\ 0 <= count /\ count <= maxiter
        /\ 0 <= nset /\ nset <= maxiter
        /\ (pc = "exit" /\ nconv = 0) => (count = maxiter /\ nset = maxiter)
        /\ \A o \in Objs :
             (LastReturned(o) /\ nconv = 0) => \A r \in ret[o] : r.count = maxiter)
  /\ [][/\ (pc = "loop" /\ pc' = "loop") => (nset' = nset + 1 /\ count' = count + 1)
        /\ (pc = "loop" /\ pc' # "loop") => (pc' = "exit" /\ nset' \in {nset, nset + 1})
        /\ (pc = "exit") => (pc' = "idle" /\ Returned(cur)')]_vars

C4_Witness ==
  /\ LastReturned(1) /\ nconv = 0 /\ nset = maxiter
  /\ \E r \in ret[1] : r.count = maxiter /\ \A ix \in DOMAIN r.M.data : IsFin(r.M.data[ix])

\* C5: the returned count is maxiter exactly when no convergence check succeeded;
\* a check that succeeded, the one of the last permitted iteration included, gives
\* a count below maxiter; the call ends by its return in both cases.
C5_CountTellsConvergence ==
  /\ pc \in {"idle", "loop", "exit"}
  /\ nconv \in {0, 1}
  /\ \A o \in Objs :
       LastReturned(o) =>
         \A r \in ret[o] :
           /\ (r.count = maxiter) <=> (nconv = 0)
           /\ (nconv > 0) => (r.count < maxiter)

C5_Witness ==
  /\ LastReturned(1) /\ nconv = 1 /\ nset = maxiter
  /\ \E r \in ret[1] : r.count = maxiter - 1

\* every component of a is within tol of that of b
WithinTol(a, b) ==
  \A ix \in DOMAIN a.data : IsFin(a.data[ix]) /\ IsFin(b.data[ix])
                               /\ FLe(FAbs(FSub(a.data[ix], b.data[ix])), tol)
\* one update moves no component of the unit field of f by more than tol
FixedPoint(f) ==
  WithinTol(get_m(update_M(f, cal_effective_field(f).H_eff, lamda)), get_m(f))

\* C6: from a field that one update moves by at most tol in every component of
\* its unit field, Mean_field_difference stops at its first convergence check,
\* with count 0 and one set_M call, and the unit field of the returned field is
\* within tol of that of the input.
C6_FixedPointStopsAtOnce ==
  \A o \in Objs :
    (LastReturned(o) /\ FixedPoint(M0[o])) =>
      /\ nset = 1 /\ nconv = 1
      /\ \A r \in ret[o] : r.count = 0 /\ r.M = M[o] /\ WithinTol(get_m(r.M), get_m(M0[o]))

C6_Witness ==
  /\ LastReturned(1) /\ FixedPoint(M0[1]) /\ M[1] # M0[1]
  /\ \E r \in ret[1] : r.count = 0

\* C7: Zeeman.effective_field is H at every cell, so it is the same array for
\* two distinct nonzero fields on the grid.
C7_ZeemanFieldIndependent ==
  /\ \A o \in Objs :
       out[o].op = "Zeeman" =>
         /\ out[o].val.shape = <<Nx, Ny, Nz, 3>>
         /\ \A ix \in DOMAIN out[o].val.data : out[o].val.data[ix] = H[ix[4] + 1]
  /\ (out[1].op = "Zeeman" /\ out[2].op = "Zeeman") => out[1].val = out[2].val

C7_Witness ==
  /\ out[1].op = "Zeeman" /\ out[2].op = "Zeeman"
  /\ M[1] # M[2] /\ ~AllZero(M[1]) /\ ~AllZero(M[2])

IsUniform(a) == \A ix \in DOMAIN a.data : a.data[ix] = a.data[<<0, 0, 0, ix[4]>>]

\* C8: for a uniform nonzero field laplace() is exactly zero at every cell, the
\* cells of the faces, edges and corners of the grid included.
C8_LaplaceOfUniformIsZero ==
  \A o \in Objs :
    (out[o].op = "laplace" /\ IsUniform(M[o]) /\ ~AllZero(M[o])) =>
      out[o].val = zeros(M[o].shape)

C8_Witness ==
  /\ Nx = 3 /\ Ny = 3 /\ Nz = 3
  /\ out[1].op = "laplace" /\ IsUniform(M[1]) /\ ~AllZero(M[1])

\* the unit field at cell c + d, the zero vector outside the grid
Ghost0(m, c, d, comp) ==
  IF Inside(m.shape, c[1] + d[1], c[2] + d[2], c[3] + d[3])
  THEN m.data[<<c[1] + d[1], c[2] + d[2], c[3] + d[3], comp>>]
  ELSE Zero
\* the central difference of component comp at cell c along the axis of d
Partial(m, c, d, comp, h) ==
  FDiv(FSub(Ghost0(m, c, d, comp), Ghost0(m, c, <<-d[1], -d[2], -d[3]>>, comp)),
       FMul(Flt(2), h))
Ex == <<1, 0, 0>>
Ey == <<0, 1, 0>>
Ez == <<0, 0, 1>>
Interior(c) == c[1] \in 1 .. Nx - 2 /\ c[2] \in 1 .. Ny - 2 /\ c[3] \in 1 .. Nz - 2

\* C9: every partial derivative of curl() is (unit[next] - unit[previous]) /
\* (2 * spacing) with the zero vector for a neighbour outside the grid, the
\* components are curl_x = dmz/dy - dmy/dz, curl_y = dmx/dz - dmz/dx and
\* curl_z = dmy/dx - dmx/dy, and for a uniform nonzero field curl() is zero at
\* every cell whose six neighbours are inside the grid.
C9_CurlZeroGhostCells ==
  \A o \in Objs :
    out[o].op = "curl" =>
      LET m == get_m(M[o])
          v == out[o].val
      IN /\ v.shape = m.shape
         /\ \A c \in Idx3(<<Nx, Ny, Nz>>) :
              /\ v.data[<<c[1], c[2], c[3], 0>>]
                   = FSub(Partial(m, c, Ey, 2, dy), Partial(m, c, Ez, 1, dz))
              /\ v.data[<<c[1], c[2], c[3], 1>>]
                   = FSub(Partial(m, c, Ez, 0, dz), Partial(m, c, Ex, 2, dx))
              /\ v.data[<<c[1], c[2], c[3], 2>>]
                   = FSub(Partial(m, c, Ex, 1, dx), Partial(m, c, Ey, 0, dy))
              /\ (IsUniform(M[o]) /\ Interior(c)) =>
                   \A comp \in 0 .. 2 : v.data[<<c[1], c[2], c[3], comp>>] = Zero

C9_Witness ==
  /\ Nx = 3 /\ Ny = 3 /\ Nz = 3
  /\ out[1].op = "curl" /\ IsUniform(M[1]) /\ ~AllZero(M[1])
  /\ \A comp \in 0 .. 2 : out[1].val.data[<<1, 1, 1, comp>>] = Zero
  /\ out[1].val.data[<<0, 1, 1, 1>>] # Zero

\* C10: the effective field of Exchange, DMI and Zeeman and the combined field
\* of cal_effective_field have the shape of the field's array.
C10_EffectiveFieldShape ==
  \A o \in Objs :
    out[o].op \in Terms \cup {"cal_effective_field"} =>
      /\ out[o].val.shape = M[o].shape
      /\ DOMAIN out[o].val.data = Idx4(M[o].shape)

C10_Witness ==
  /\ Nx = 2 /\ Ny = 3 /\ Nz = 2
  /\ out[1].op = "cal_effective_field" /\ out[2].op = "DMI"

\* |a - b| <= eps * |b|, false when either is not finite
RelClose(a, b, eps) ==
  IsFin(a) /\ IsFin(b) /\ FLe(FAbs(FSub(a, b)), FMul(eps, FAbs(b)))
\* every element of a is within the relative error eps of that of b
AllRelClose(a, b, eps) ==
  a.shape = b.shape /\ \A ix \in DOMAIN a.data : RelClose(a.data[ix], b.data[ix], eps)
\* every element of a is within the absolute error eps of that of b
AllAbsClose(a, b, eps) ==
  a.shape = b.shape /\ \A ix \in DOMAIN a.data :
    IsFin(a.data[ix]) /\ IsFin(b.data[ix]) /\ FLe(FAbs(FSub(a.data[ix], b.data[ix])), eps)
\* every cell of the vector field f has a finite nonzero magnitude
NonzeroCells(f) ==
  LET n == norm_axis3(f)
  IN \A ix \in DOMAIN n.data : IsFin(n.data[ix]) /\ n.data[ix] # Zero
\* the rounding error allowed to one update: 2^-12 of the magnitude, the unit
\* roundoff of the floats being 2^-16
StepEps == [k |-> "fin", m |-> MantLo, e |-> -(MantBits - 1) - 12]
\* the target vector and the damped vector of update_M for the field f under Heff
TargetOf(f, Heff) == np_multiply(get_Ms(f), np_divide(Heff, norm_axis3(Heff)))
DampedOf(f, Heff) ==
  np_add(f, scalar_multiply(lamda, np_subtract(TargetOf(f, Heff), f)))
\* the array g has the magnitudes of the target and the directions of the damped vector
MagnitudeLaw(g, f, Heff) ==
  /\ AllRelClose(norm_axis3(g), norm_axis3(TargetOf(f, Heff)), StepEps)
  /\ AllRelClose(norm_axis3(g), get_Ms(f), StepEps)
  /\ AllAbsClose(np_divide(g, norm_axis3(g)),
                 np_divide(DampedOf(f, Heff), norm_axis3(DampedOf(f, Heff))), StepEps)

\* C11: when the effective field and the field are nonzero at every cell, the
\* array an iteration stores by set_M has at each cell the magnitude of the target
\* M_new, which is the magnitude before the update (the Langevin factor is 1), and
\* the direction of M_old + lamda * (M_new - M_old), up to the rounding of the
\* floats; so the magnitude of every cell stays that of the input field, up to
\* the rounding of the updates made, over all iterations of Mean_field_difference.
C11_MagnitudeLaw ==
  /\ [](\A o \in Objs :
          NonzeroCells(M0[o]) =>
            /\ NonzeroCells(M[o])
            /\ AllRelClose(get_Ms(M[o]), get_Ms(M0[o]), FMul(Flt(maxiter), StepEps)))
  /\ [][(pc = "loop" /\ nset' = nset + 1 /\ NonzeroCells(M[cur]) /\ NonzeroCells(H_eff))
          => /\ M'[cur] = update_M(M[cur], H_eff, lamda)
             /\ MagnitudeLaw(M'[cur], M[cur], H_eff)]_vars

C11_Witness ==
  /\ pc = "idle" /\ cur = 1 /\ Returned(1) /\ nset = maxiter
  /\ NonzeroCells(M0[1]) /\ NonzeroCells(M[1])
  /\ ~AllAbsClose(get_m(M[1]), get_m(M0[1]), Dec(1, -3))
  /\ AllRelClose(get_Ms(M[1]), get_Ms(M0[1]), FMul(Flt(maxiter), StepEps))

\* ------------------------------------------------------------------------
\* the held pair (H_eff, E) is the pair computed from the stored array of o
FieldHeld(o) == [H_eff |-> H_eff, E |-> E] = cal_effective_field(M[o])

ReturnedOwnEnergy(o) ==
  \A r \in ret[o] : r.M = M[o] /\ r.E = cal_effective_field(r.M).E

UpdateUsesOwnField ==
  (pc = "loop" /\ nset' = nset + 1) =>
     (M'[cur] = update_M(M[cur], cal_effective_field(M[cur]).H_eff, lamda))

OnlySetMChanges ==
  (M' # M) =>
     (pc = "loop" /\ nset' = nset + 1 /\ \A o \in Objs : (o # cur) => (M'[o] = M[o]))

\* C12: loop invariant of Mean_field_difference.  At every loop head, at the
\* exit of the loop and at return, the held H_eff and E are exactly
\* cal_effective_field of the array the object stores at that moment, so the
\* returned energy is the energy of the returned field, whether the loop ends
\* by the stop criterion or by the iteration cap; each update is update_M of
\* the stored array with the effective field of that same array; and the
\* stored arrays change only in a loop iteration, which sets the array of the
\* object of the call once and leaves the other object alone.
C12_LoopInvariant ==
  /\ []((pc \in {"loop", "exit"}) => FieldHeld(cur))
  /\ [](\A o \in Objs : LastReturned(o) => (FieldHeld(o) /\ ReturnedOwnEnergy(o)))
  /\ [][UpdateUsesOwnField /\ OnlySetMChanges]_vars

\* a call that changed the field in every one of maxiter iterations and left
\* the loop by the iteration cap, with a finite energy returned
C12_Witness ==
  /\ LastReturned(1)
  /\ count = maxiter
  /\ nset = maxiter
  /\ nconv = 0
  /\ M[1] # M0[1]
  /\ IsFin(E)
  /\ E # cal_effective_field(M0[1]).E
  /\ \A r \in ret[1] : r.E = E /\ r.M = M[1]

====
